---- MODULE Spec2Model ----
(***************************************************************************)
(* PostgresSaver (libs/checkpoint-postgres/src/index.ts): the checkpoint   *)
(* store over a transactional SQL store.  The tables are the model's       *)
(* state; setup, put, putWrites, getTuple and list are its actions.        *)
(*                                                                         *)
(* Representation.  A JavaScript value that may be undefined is a sequence *)
(* of length at most one: None is undefined, Some(x) is x.  Strings that   *)
(* the program compares with < or ORDER BY (checkpoint ids) are sequences  *)
(* of character codes, compared lexically; other strings are TLA+ strings. *)
(* A JavaScript object used as a map (channel_values, channel_versions,    *)
(* newVersions, metadata) is a function whose domain is its key set.       *)
(***************************************************************************)
EXTENDS Integers, Sequences, FiniteSets, TLC

VARIABLES
    relations,     \* the tables that exist in the database
    migrations,    \* rows of checkpoint_migrations, the sequence of their v
    checkpoints,   \* rows of the checkpoints table
    blobs,         \* rows of the checkpoint_blobs table
    writes,        \* rows of the checkpoint_writes table, in insertion order
    hist,          \* the write calls made so far, oldest first, with outcome
    ret,           \* the last call of any kind, with what it returned
    txs            \* the open transaction of every process that runs a call
                   \* concurrently with another

vars == <<relations, migrations, checkpoints, blobs, writes, hist, ret, txs>>

\* ------------------------------------------------------------------ bounds

\* The number of write calls (setup, put, putWrites) in one behaviour.
MaxOps == 2

\* ------------------------------------------------------------ basic values

None == <<>>
Some(x) == <<x>>
IsSome(o) == Len(o) = 1
Get(o) == o[1]
\* `x = dflt` in a destructuring pattern: the default applies to undefined.
OrElse(o, d) == IF IsSome(o) THEN Get(o) ELSE d

EmptyMap == <<>>
Keys(m) == DOMAIN m
Has(m, k) == k \in DOMAIN m
Map1(k, v) == [x \in {k} |-> v]

Min(a, b) == IF a < b THEN a ELSE b

Range(q) == {q[i] : i \in 1..Len(q)}

\* String comparison of two checkpoint ids: the order of `checkpoint_id <
\* $n` and of ORDER BY checkpoint_id, character by character, a proper
\* prefix first.
RECURSIVE LexLess(_, _)
LexLess(a, b) ==
    IF b = <<>> THEN FALSE
    ELSE IF a = <<>> THEN TRUE
    ELSE IF a[1] # b[1] THEN a[1] < b[1]
    ELSE LexLess(Tail(a), Tail(b))

\* Object.entries order of the channel names used here (insertion order of
\* the literal that built the object).
ChannelOrder == <<"x", "y">>

Entries(m) ==
    LET present == SelectSeq(ChannelOrder, LAMBDA k : Has(m, k))
    IN [i \in 1..Len(present) |-> <<present[i], m[present[i]]>>]

\* ---------------------------------------------------------------- Serializer

\* serde.dumpsTyped(value): the pair (type tag, bytes).  Values are small
\* naturals; the bytes are the decimal digit of the value.
DumpsTyped(value) == <<"json", <<value + 48>>>>

\* serde.loadsTyped(type, bytes).
LoadsTyped(type, bytes) == bytes[1] - 48

\* --------------------------------------------------------------- Row codec

\* The reserved channel under which the sends of a step are recorded as
\* pending writes of the checkpoint the step started from.
TASKS == "__pregel_tasks"

\* WRITES_IDX_MAP: the static table reserved channel name -> idx.
WRITES_IDX_MAP == Map1("__start__", 0)

\* _dumpCheckpoint: the checkpoint body as stored, pending_sends emptied.
\* The column is JSON: it comes back from the store as the same object.
DumpCheckpoint(checkpoint) == [checkpoint EXCEPT !.pending_sends = <<>>]

\* _dumpMetadata: the serialized metadata with every NUL character (code 0)
\* removed from its text.
DumpMetadata(metadata) ==
    [k \in Keys(metadata) |-> SelectSeq(metadata[k], LAMBDA c : c # 0)]

\* _loadMetadata: dumpsTyped then loadsTyped of the stored metadata object.
LoadMetadata(metadata) == metadata

\* A row of _dumpBlobs keyed by the channel name where the version belongs.
DumpBlobRow_ChannelAsVersion(threadId, checkpointNs, values, k, ver) ==
    LET tv == IF Has(values, k) THEN DumpsTyped(values[k])
                                ELSE <<"empty", None>>
    IN [thread_id |-> threadId, checkpoint_ns |-> checkpointNs,
        channel |-> k, version |-> k, type |-> tv[1],
        blob |-> IF tv[1] = "empty" THEN None ELSE Some(tv[2])]

\* A row of _dumpBlobs written under the thread "t1" whatever the thread
\* of the call.
DumpBlobRow_Thread1(threadId, checkpointNs, values, k, ver) ==
    LET tv == IF Has(values, k) THEN DumpsTyped(values[k])
                                ELSE <<"empty", None>>
    IN [thread_id |-> Some("t1"), checkpoint_ns |-> checkpointNs,
        channel |-> k, version |-> ver, type |-> tv[1],
        blob |-> IF tv[1] = "empty" THEN None ELSE Some(tv[2])]

\* One row of _dumpBlobs: the channel k of `versions`.  A channel without
\* a value is written with the type "empty" and no bytes.
DumpBlobRow(threadId, checkpointNs, values, k, ver) ==
    LET tv == IF Has(values, k) THEN DumpsTyped(values[k])
                                ELSE <<"empty", None>>
    IN [thread_id |-> threadId, checkpoint_ns |-> checkpointNs,
        channel |-> k, version |-> ver, type |-> tv[1],
        blob |-> IF tv[1] = "empty" THEN None ELSE Some(tv[2])]

\* _dumpBlobs that writes no row for a channel without a value.
DumpBlobs_NoSentinel(threadId, checkpointNs, values, versions) ==
    IF ~IsSome(versions) THEN <<>>
    ELSE LET es == SelectSeq(Entries(Get(versions)), LAMBDA e : Has(values, e[1]))
         IN [i \in 1..Len(es) |->
                DumpBlobRow(threadId, checkpointNs, values, es[i][1], es[i][2])]

\* _dumpBlobs: nothing when `versions` is undefined, else one row for every
\* entry of `versions`, in Object.entries order.
DumpBlobs(threadId, checkpointNs, values, versions) ==
    IF ~IsSome(versions) THEN <<>>
    ELSE LET es == Entries(Get(versions))
         IN [i \in 1..Len(es) |->
                DumpBlobRow(threadId, checkpointNs, values, es[i][1], es[i][2])]

\* _loadBlobs without the filter: an "empty" row loads as the value 0.
LoadBlobs_KeepsEmpty(blobValues) ==
    LET names == {blobValues[i][1] : i \in 1..Len(blobValues)}
    IN [k \in names |->
          LET i == CHOOSE j \in 1..Len(blobValues) :
                      /\ blobValues[j][1] = k
                      /\ \A l \in 1..Len(blobValues) : blobValues[l][1] = k => l <= j
          IN IF blobValues[i][2] = "empty" THEN 0
             ELSE LoadsTyped(blobValues[i][2], Get(blobValues[i][3]))]

\* _loadBlobs: the rows (channel, type, bytes) whose type is not "empty",
\* as a map channel -> value.
LoadBlobs(blobValues) ==
    LET live == SelectSeq(blobValues, LAMBDA r : r[2] # "empty")
        names == {live[i][1] : i \in 1..Len(live)}
    IN [k \in names |->
          LET i == CHOOSE j \in 1..Len(live) :
                      /\ live[j][1] = k
                      /\ \A l \in 1..Len(live) : live[l][1] = k => l <= j
          IN LoadsTyped(live[i][2], Get(live[i][3]))]

\* _loadCheckpoint that leaves the body's own pending_sends in place.
LoadCheckpoint_BodySends(checkpoint, channelValues, pendingSends) ==
    [checkpoint EXCEPT !.channel_values = LoadBlobs(channelValues)]

\* _loadCheckpoint: the stored body with pending_sends and channel_values
\* replaced by what the row's pending_sends and channel_values decode to.
LoadCheckpoint(checkpoint, channelValues, pendingSends) ==
    [checkpoint EXCEPT
        !.pending_sends = [i \in 1..Len(pendingSends) |->
                              LoadsTyped(pendingSends[i][1], pendingSends[i][2])],
        !.channel_values = LoadBlobs(channelValues)]

\* Triples of all writes of the row but the last.
LoadWrites_DropsLast(ws) ==
    [i \in 1..(Len(ws) - 1) |-> <<ws[i][1], ws[i][2], LoadsTyped(ws[i][3], ws[i][4])>>]

\* _loadWrites: the triples (task id, channel, value) of the row's writes.
LoadWrites(ws) ==
    [i \in 1..Len(ws) |-> <<ws[i][1], ws[i][2], LoadsTyped(ws[i][3], ws[i][4])>>]

\* An idx that is the position of the write for every channel.
WriteIdx_Position(channel, i) == i

\* The idx of the write at position i (0-based) of a batch.
WriteIdx(channel, i) ==
    IF Has(WRITES_IDX_MAP, channel) THEN WRITES_IDX_MAP[channel] ELSE i

\* _dumpWrites: one row for every write of the batch.
DumpWrites(threadId, checkpointNs, checkpointId, taskId, ws) ==
    [i \in 1..Len(ws) |->
        LET tv == DumpsTyped(ws[i][2])
        IN [thread_id |-> threadId, checkpoint_ns |-> checkpointNs,
            checkpoint_id |-> checkpointId, task_id |-> taskId,
            idx |-> WriteIdx(ws[i][1], i - 1), channel |-> ws[i][1],
            type |-> tv[1], blob |-> tv[2]]]

\* ---------------------------------------------------------------- the store

\* The database as one value: what a transaction reads and writes.
Db == [relations |-> relations, migrations |-> migrations,
       checkpoints |-> checkpoints, blobs |-> blobs, writes |-> writes]

\* MIGRATIONS: the ordered list of DDL steps; step v creates (if it does
\* not exist) the table named here.  Step 0 creates the ledger.
MIGRATIONS ==
    <<"checkpoint_migrations", "checkpoints", "checkpoint_blobs",
      "checkpoint_writes">>

Relations(k) == {MIGRATIONS[i] : i \in 1..k}

\* A query parameter that is undefined is sent as NULL, which no column of
\* a table's key accepts.
NotNull(cols) == \A i \in 1..Len(cols) : IsSome(cols[i])

BlobKey(r) == <<r.thread_id, r.checkpoint_ns, r.channel, r.version>>
CheckpointKey(r) == <<r.thread_id, r.checkpoint_ns, r.checkpoint_id>>
WriteKey(r) ==
    <<r.thread_id, r.checkpoint_ns, r.checkpoint_id, r.task_id, r.idx>>

\* The result of one statement: whether it succeeded, and the database the
\* transaction sees after it.
Done(db) == [ok |-> TRUE, db |-> db]
Failed(db) == [ok |-> FALSE, db |-> db]

\* UPSERT_CHECKPOINT_BLOBS_SQL with the row r of _dumpBlobs: insert, or on a
\* row with the same (thread_id, checkpoint_ns, channel, version) overwrite
\* its type and bytes.
UpsertBlob(db, r) ==
    IF \/ "checkpoint_blobs" \notin db.relations
       \/ ~NotNull(<<r.thread_id>>)
    THEN Failed(db)
    ELSE LET row == [r EXCEPT !.thread_id = Get(r.thread_id)]
         IN Done([db EXCEPT !.blobs =
                {b \in @ : BlobKey(b) # BlobKey(row)} \cup {row}])

\* UPSERT_CHECKPOINTS_SQL: insert the checkpoint row, or on a row with the
\* same (thread_id, checkpoint_ns, checkpoint_id) replace it.
UpsertCheckpoint(db, r) ==
    IF \/ "checkpoints" \notin db.relations
       \/ ~NotNull(<<r.thread_id>>)
    THEN Failed(db)
    ELSE LET row == [r EXCEPT !.thread_id = Get(r.thread_id)]
         IN Done([db EXCEPT !.checkpoints =
                {c \in @ : CheckpointKey(c) # CheckpointKey(row)} \cup {row}])

\* A row of _dumpWrites as the table holds it.
WriteRow(r) ==
    [r EXCEPT !.thread_id = Get(@), !.checkpoint_ns = Get(@),
              !.checkpoint_id = Get(@)]

WritesNotNull(rs) ==
    \A i \in 1..Len(rs) :
        NotNull(<<rs[i].thread_id, rs[i].checkpoint_ns, rs[i].checkpoint_id>>)

\* The table rows `ws` hold a row with the key of r.
KeyTaken(ws, r) == \E i \in 1..Len(ws) : WriteKey(ws[i]) = WriteKey(r)

\* UPSERT_CHECKPOINT_WRITES_SQL with the rows rs[i..] of a batch, in order:
\* insert the row, or on a row with the same (thread_id, checkpoint_ns,
\* checkpoint_id, task_id, idx) overwrite its channel, type and bytes.
RECURSIVE UpsertRows(_, _, _)
UpsertRows(ws, rs, i) ==
    IF i > Len(rs) THEN ws
    ELSE LET r == WriteRow(rs[i])
         IN UpsertRows(IF KeyTaken(ws, r)
                       THEN [j \in 1..Len(ws) |->
                               IF WriteKey(ws[j]) = WriteKey(r) THEN r ELSE ws[j]]
                       ELSE Append(ws, r),
                       rs, i + 1)

UpsertWrites(db, rs) ==
    IF \/ "checkpoint_writes" \notin db.relations
       \/ ~WritesNotNull(rs)
    THEN Failed(db)
    ELSE Done([db EXCEPT !.writes = UpsertRows(@, rs, 1)])

\* INSERT_CHECKPOINT_WRITES_SQL with the rows rs[i..] of a batch, in order:
\* insert only.  The table is keyed by (thread_id, checkpoint_ns,
\* checkpoint_id, task_id, idx); what the statement does with a row whose
\* key is taken is `onConflict`: "error" (the statement fails) or "nothing"
\* (the row is skipped).  A stored row is never changed.
RECURSIVE InsertRows(_, _, _, _)
InsertRows(ws, rs, i, onConflict) ==
    IF i > Len(rs) THEN [ok |-> TRUE, rows |-> ws]
    ELSE LET r == WriteRow(rs[i])
         IN IF ~KeyTaken(ws, r) THEN InsertRows(Append(ws, r), rs, i + 1, onConflict)
            ELSE IF onConflict = "error" THEN [ok |-> FALSE, rows |-> ws]
            ELSE InsertRows(ws, rs, i + 1, onConflict)

InsertWrites(db, rs, onConflict) ==
    IF \/ "checkpoint_writes" \notin db.relations
       \/ ~WritesNotNull(rs)
    THEN Failed(db)
    ELSE LET r == InsertRows(db.writes, rs, 1, onConflict)
         IN IF r.ok THEN Done([db EXCEPT !.writes = r.rows]) ELSE Failed(db)

\* ------------------------------------------------------------------- reads

\* The members of a set of write rows of one checkpoint in the order
\* (task_id, idx).
WriteBefore(a, b) ==
    \/ LexLess(a.task_id, b.task_id)
    \/ a.task_id = b.task_id /\ a.idx < b.idx

RECURSIVE SortWrites(_)
SortWrites(S) ==
    IF S = {} THEN <<>>
    ELSE LET m == CHOOSE x \in S : \A y \in S \ {x} : WriteBefore(x, y)
         IN <<m>> \o SortWrites(S \ {m})

\* SELECT_SQL, the channel_values column of the checkpoint row c: for every
\* entry (channel, version) of the body's channel_versions, the blob stored
\* under (thread_id, checkpoint_ns, channel, version), as (channel, type,
\* bytes).
SelectChannelValues(db, c) ==
    LET es == Entries(c.checkpoint.channel_versions)
        hit(i) == {b \in db.blobs :
                      BlobKey(b) = <<c.thread_id, c.checkpoint_ns, es[i][1], es[i][2]>>}
        have == SelectSeq([i \in 1..Len(es) |-> i], LAMBDA i : hit(i) # {})
    IN [n \in 1..Len(have) |->
          LET b == CHOOSE x \in hit(have[n]) : TRUE
          IN <<b.channel, b.type, b.blob>>]

\* SELECT_SQL, the pending_writes column: the writes stored for the
\* checkpoint, ordered by (task_id, idx), as (task_id, channel, type, bytes).
SelectPendingWrites(db, c) ==
    LET ws == SortWrites({w \in Range(db.writes) :
                  /\ w.thread_id = c.thread_id
                  /\ w.checkpoint_ns = c.checkpoint_ns
                  /\ w.checkpoint_id = c.checkpoint_id})
    IN [i \in 1..Len(ws) |-> <<ws[i].task_id, ws[i].channel, ws[i].type, ws[i].blob>>]

\* SELECT_SQL, the pending_sends column: the writes stored for the parent
\* checkpoint under the reserved channel TASKS, ordered by (task_id, idx),
\* as (type, bytes).
SelectPendingSends(db, c) ==
    LET ws == SortWrites({w \in Range(db.writes) :
                  /\ w.thread_id = c.thread_id
                  /\ w.checkpoint_ns = c.checkpoint_ns
                  /\ c.parent_checkpoint_id = Some(w.checkpoint_id)
                  /\ w.channel = TASKS})
    IN [i \in 1..Len(ws) |-> <<ws[i].type, ws[i].blob>>]

\* SELECT_SQL: the row of the result for the checkpoint row c.
SelectRow(db, c) ==
    [thread_id |-> c.thread_id, checkpoint_ns |-> c.checkpoint_ns,
     checkpoint_id |-> c.checkpoint_id,
     parent_checkpoint_id |-> c.parent_checkpoint_id,
     checkpoint |-> c.checkpoint, metadata |-> c.metadata,
     channel_values |-> SelectChannelValues(db, c),
     pending_writes |-> SelectPendingWrites(db, c),
     pending_sends |-> SelectPendingSends(db, c)]

\* `x ? a : b` on an optional string: undefined and "" are falsy.
Truthy(o) == IsSome(o) /\ Get(o) # <<>>

\* ORDER BY checkpoint_id DESC: every order of the rows S the store may
\* return them in (rows with equal ids in either order).
RECURSIVE OrderByIdDesc(_)
OrderByIdDesc(S) ==
    IF S = {} THEN {<<>>}
    ELSE LET top == {r \in S : \A q \in S : ~LexLess(r.checkpoint_id, q.checkpoint_id)}
         IN UNION {{<<r>> \o rest : rest \in OrderByIdDesc(S \ {r})} : r \in top}

\* LIMIT that lets one row too many through.
Limit_OneMore(rows, n) == SubSeq(rows, 1, Min(n + 1, Len(rows)))

\* LIMIT n of a result.
Limit(rows, n) == SubSeq(rows, 1, Min(n, Len(rows)))

\* A config: `configurable` says whether the field is there at all; the
\* three identity components may each be undefined.
Config(thread, ns, id) ==
    [configurable |-> TRUE, thread_id |-> thread, checkpoint_ns |-> ns,
     checkpoint_id |-> id]

NoConfigurable ==
    [configurable |-> FALSE, thread_id |-> None, checkpoint_ns |-> None,
     checkpoint_id |-> None]

\* metadata @> filter: every key of the filter is in the metadata with the
\* same value.
Contains(metadata, filter) ==
    \A k \in Keys(filter) : Has(metadata, k) /\ metadata[k] = filter[k]

\* _searchWhere with `checkpoint_id <= $n` for the cursor.
SearchWhere_BeforeInclusive(config, filter, before, c) ==
    /\ config.configurable =>
          /\ config.thread_id = Some(c.thread_id)
          /\ IsSome(config.checkpoint_ns) =>
                 Get(config.checkpoint_ns) = c.checkpoint_ns
          /\ IsSome(config.checkpoint_id) =>
                 Get(config.checkpoint_id) = c.checkpoint_id
    /\ (IsSome(filter) /\ Keys(Get(filter)) # {}) =>
          Contains(c.metadata, Get(filter))
    /\ (IsSome(before) /\ Get(before).configurable
                       /\ IsSome(Get(before).checkpoint_id)) =>
          ~LexLess(Get(Get(before).checkpoint_id), c.checkpoint_id)

\* _searchWhere: the WHERE clause as a predicate on the checkpoint row c.
\* `filter` and `before` may be undefined.  A comparison with an undefined
\* (NULL) parameter matches no row.
SearchWhere(config, filter, before, c) ==
    /\ config.configurable =>
          /\ config.thread_id = Some(c.thread_id)
          /\ IsSome(config.checkpoint_ns) =>
                 Get(config.checkpoint_ns) = c.checkpoint_ns
          /\ IsSome(config.checkpoint_id) =>
                 Get(config.checkpoint_id) = c.checkpoint_id
    /\ (IsSome(filter) /\ Keys(Get(filter)) # {}) =>
          Contains(c.metadata, Get(filter))
    /\ (IsSome(before) /\ Get(before).configurable
                       /\ IsSome(Get(before).checkpoint_id)) =>
          LexLess(c.checkpoint_id, Get(Get(before).checkpoint_id))

\* A tuple whose parent identity names the checkpoint itself.
Tuple_ParentIsSelf(row, thread, ns) ==
    [config |-> Config(thread, ns, Some(row.checkpoint_id)),
     checkpoint |-> LoadCheckpoint(row.checkpoint, row.channel_values,
                                   row.pending_sends),
     metadata |-> LoadMetadata(row.metadata),
     parentConfig |-> Some(Config(thread, ns, Some(row.checkpoint_id))),
     pendingWrites |-> LoadWrites(row.pending_writes)]

\* The CheckpointTuple built from a row of SELECT_SQL; thread and namespace
\* of its configs are the arguments.
Tuple(row, thread, ns) ==
    [config |-> Config(thread, ns, Some(row.checkpoint_id)),
     checkpoint |-> LoadCheckpoint(row.checkpoint, row.channel_values,
                                   row.pending_sends),
     metadata |-> LoadMetadata(row.metadata),
     parentConfig |-> IF Truthy(row.parent_checkpoint_id)
                      THEN Some(Config(thread, ns, row.parent_checkpoint_id))
                      ELSE None,
     pendingWrites |-> LoadWrites(row.pending_writes)]

\* The tables SELECT_SQL reads exist: the query of getTuple and list does
\* not fail.
CanSelect(db) ==
    {"checkpoints", "checkpoint_blobs", "checkpoint_writes"} \subseteq db.relations

\* getTuple with ORDER BY checkpoint_id ASC: without an id it returns the
\* row of the thread and namespace with the least id.
GetTuple_Ascending(db, config) ==
    LET thread_id == config.thread_id
        checkpoint_ns == OrElse(config.checkpoint_ns, "")
        checkpoint_id == config.checkpoint_id
        match == {c \in db.checkpoints :
                    /\ thread_id = Some(c.thread_id)
                    /\ c.checkpoint_ns = checkpoint_ns
                    /\ Truthy(checkpoint_id) => c.checkpoint_id = Get(checkpoint_id)}
    IN IF match = {} THEN None
       ELSE LET row == CHOOSE c \in match :
                          \A q \in match : ~LexLess(q.checkpoint_id, c.checkpoint_id)
            IN Some(Tuple(SelectRow(db, row), thread_id, Some(checkpoint_ns)))

\* getTuple: the tuple of the row with the given id, or of the row with the
\* greatest id of the thread and namespace when the id is undefined or "";
\* None when there is no such row.
GetTuple(db, config) ==
    LET thread_id == config.thread_id
        checkpoint_ns == OrElse(config.checkpoint_ns, "")
        checkpoint_id == config.checkpoint_id
        match == {c \in db.checkpoints :
                    /\ thread_id = Some(c.thread_id)
                    /\ c.checkpoint_ns = checkpoint_ns
                    /\ Truthy(checkpoint_id) => c.checkpoint_id = Get(checkpoint_id)}
        result == IF Truthy(checkpoint_id)
                  THEN OrderByIdDesc(match)
                  ELSE {Limit(rows, 1) : rows \in OrderByIdDesc(match)}
        rows == CHOOSE r \in result : TRUE
    IN IF rows = <<>> THEN None
       ELSE Some(Tuple(SelectRow(db, rows[1]), thread_id, Some(checkpoint_ns)))

\* list: every sequence of tuples one call may yield.  `limit` may be
\* undefined.
List(db, config, filter, before, limit) ==
    LET match == {c \in db.checkpoints : SearchWhere(config, filter, before, c)}
        cut(rows) == IF IsSome(limit) THEN Limit(rows, Get(limit)) ELSE rows
    IN {[i \in 1..Len(cut(rows)) |->
            Tuple(SelectRow(db, cut(rows)[i]),
                  Some(cut(rows)[i].thread_id), Some(cut(rows)[i].checkpoint_ns))] :
        rows \in OrderByIdDesc(match)}

\* ------------------------------------------------------------ transactions

\* A fault the environment injects into one call: the n-th client.query of
\* the call is rejected by the store (kind "query"), or none.
NoFault == [kind |-> "none", n |-> 0]
QueryFault(n) == [kind |-> "query", n |-> n]
Rejects(fault, n) == fault.kind = "query" /\ fault.n = n

\* The Serializer throws in the method `site` of the saver.
SerdeFault(site) == [kind |-> site, n |-> 0]
Throws(fault, site) == fault.kind = site

\* A statement of a transaction: the SQL and its arguments.
Stmt(sql, args) == [sql |-> sql, args |-> args]

\* What the store does with one statement.
Exec(db, stmt, onConflict) ==
    CASE stmt.sql = "UPSERT_CHECKPOINT_BLOBS_SQL" -> UpsertBlob(db, stmt.args)
      [] stmt.sql = "UPSERT_CHECKPOINTS_SQL" -> UpsertCheckpoint(db, stmt.args)
      [] stmt.sql = "UPSERT_CHECKPOINT_WRITES_SQL" -> UpsertWrites(db, stmt.args)
      [] stmt.sql = "INSERT_CHECKPOINT_WRITES_SQL" ->
             InsertWrites(db, stmt.args, onConflict)

\* The statements stmts[i..] run in order on the transaction's view `work`
\* of the database, where stmts[i] is the qn-th query of the call: the view
\* after the last one and the queries sent, or the failure of the first
\* statement that fails.
RECURSIVE ExecFrom(_, _, _, _, _, _)
ExecFrom(work, stmts, i, qn, fault, onConflict) ==
    IF i > Len(stmts) THEN [ok |-> TRUE, db |-> work, sent |-> <<>>]
    ELSE LET r == IF Rejects(fault, qn) THEN Failed(work)
                  ELSE Exec(work, stmts[i], onConflict)
         IN IF ~r.ok THEN [ok |-> FALSE, db |-> work, sent |-> <<stmts[i].sql>>]
            ELSE LET rest == ExecFrom(r.db, stmts, i + 1, qn + 1, fault, onConflict)
                 IN [rest EXCEPT !.sent = <<stmts[i].sql>> \o @]

\* A transaction whose catch block sends no ROLLBACK: what the statements
\* before the failure did stays.
Transaction_NoRollback(db, stmts, fault, onConflict) ==
    LET begun == ~Rejects(fault, 1)
        body == ExecFrom(db, stmts, 1, 2, fault, onConflict)
        committed == begun /\ body.ok /\ ~Rejects(fault, Len(stmts) + 2)
        sent == IF ~begun THEN <<"BEGIN">>
                ELSE IF ~body.ok THEN <<"BEGIN">> \o body.sent
                ELSE <<"BEGIN">> \o body.sent \o <<"COMMIT">>
    IN [ok |-> committed,
        db |-> IF begun THEN body.db ELSE db,
        trace |-> <<"connect">> \o sent \o <<"release">>]

\* The end of a transaction on the database db: BEGIN was accepted or
\* not, `body` is what the statements did, COMMIT is accepted or not.
EndOf(db, begun, body, accepted) ==
    LET committed == begun /\ body.ok /\ accepted
        sent == IF ~begun THEN <<"BEGIN">>
                ELSE IF ~body.ok THEN <<"BEGIN">> \o body.sent
                ELSE <<"BEGIN">> \o body.sent \o <<"COMMIT">>
    IN [ok |-> committed,
        db |-> IF committed THEN body.db ELSE db,
        trace |-> <<"connect">> \o sent
                  \o (IF committed THEN <<>> ELSE <<"ROLLBACK">>)
                  \o <<"release">>]

\* connect; try { BEGIN; stmts; COMMIT } catch { ROLLBACK; throw } finally
\* { release }: the database after the call, whether it returned, and the
\* calls made on the pool and the client.
Transaction(db, stmts, fault, onConflict) ==
    EndOf(db, ~Rejects(fault, 1),
          ExecFrom(db, stmts, 1, 2, fault, onConflict),
          ~Rejects(fault, Len(stmts) + 2))

\* The end of a call that throws after the transaction tx has run without
\* its COMMIT: where tx would have committed, ROLLBACK and release follow
\* the statements, and the database is as before.
Thrown(db, tx) ==
    IF ~tx.ok THEN tx
    ELSE [ok |-> FALSE, db |-> db,
          trace |-> SubSeq(tx.trace, 1, Len(tx.trace) - 2)
                    \o <<"ROLLBACK", "release">>]

\* An exception thrown inside the try block after the statements stmts
\* have run: the catch block sends ROLLBACK and rethrows, the finally block
\* releases.  When one of stmts fails, that failure is the call's.
ThrowAfter(db, stmts) == Thrown(db, Transaction(db, stmts, NoFault, "error"))

\* _dumpBlobs calls the Serializer: a channel of versions has a value.
DumpsAValue(values, versions) ==
    /\ IsSome(versions)
    /\ \E k \in Keys(Get(versions)) : Has(values, k)

\* --------------------------------------------------------------- operations

\* The ledger's highest version, -1 when it has no row.
RECURSIVE MaxOf(_)
MaxOf(vs) ==
    IF vs = <<>> THEN -1
    ELSE LET m == MaxOf(Tail(vs)) IN IF Head(vs) > m THEN Head(vs) ELSE m

\* setup, the loop `for (v = version + 1; v < MIGRATIONS.length; v++)` from
\* step v, whose DDL is the qn-th query of the call.  `aborted`: a statement
\* of this transaction has failed before, and the store rejects every
\* statement that follows until the transaction ends.
RECURSIVE Migrate(_, _, _, _, _)
Migrate(work, v, qn, fault, aborted) ==
    IF v >= Len(MIGRATIONS) THEN [ok |-> TRUE, db |-> work, sent |-> <<>>]
    ELSE IF aborted \/ Rejects(fault, qn)
    THEN [ok |-> FALSE, db |-> work, sent |-> <<"MIGRATION">>]
    ELSE LET ddl == [work EXCEPT !.relations = @ \cup {MIGRATIONS[v + 1]}]
         IN IF \/ Rejects(fault, qn + 1)
               \/ "checkpoint_migrations" \notin ddl.relations
               \/ \E i \in 1..Len(ddl.migrations) : ddl.migrations[i] = v
            THEN [ok |-> FALSE, db |-> ddl, sent |-> <<"MIGRATION", "INSERT">>]
            ELSE LET rest == Migrate([ddl EXCEPT !.migrations = Append(@, v)],
                                     v + 1, qn + 2, fault, FALSE)
                 IN [rest EXCEPT !.sent = <<"MIGRATION", "INSERT">> \o @]

\* setup: BEGIN, read the highest version of the ledger (a failure of that
\* query whose message says the ledger does not exist is taken as version
\* -1, any other is rethrown), run the migrations after it, COMMIT; on an
\* error ROLLBACK and rethrow; release.
SetupCall(db, fault) ==
    LET begun == ~Rejects(fault, 1)
        noLedger == "checkpoint_migrations" \notin db.relations
        selected == begun /\ ~Rejects(fault, 2)
        version == IF noLedger THEN -1 ELSE MaxOf(db.migrations)
        loop == Migrate(db, version + 1, 3, fault, noLedger)
        nq == 2 + Len(loop.sent)
        committed == selected /\ loop.ok /\ ~Rejects(fault, nq + 1)
        sent == IF ~begun THEN <<"BEGIN">>
                ELSE IF ~selected THEN <<"BEGIN", "SELECT">>
                ELSE IF ~loop.ok THEN <<"BEGIN", "SELECT">> \o loop.sent
                ELSE <<"BEGIN", "SELECT">> \o loop.sent \o <<"COMMIT">>
    IN [ok |-> committed,
        value |-> None,
        db |-> IF committed THEN loop.db ELSE db,
        trace |-> <<"connect">> \o sent
                  \o (IF committed THEN <<>> ELSE <<"ROLLBACK">>)
                  \o <<"release">>]

\* What a call returns after its transaction tx: the value when tx
\* committed, else the exception of tx.
Returns(tx, value) ==
    [ok |-> tx.ok, value |-> IF tx.ok THEN Some(value) ELSE None,
     db |-> tx.db, trace |-> tx.trace]

\* The blob upserts of put, one for every row of _dumpBlobs.
PutBlobStmts(config, checkpoint, newVersions) ==
    LET serializedBlobs == DumpBlobs(config.thread_id,
                                     OrElse(config.checkpoint_ns, ""),
                                     checkpoint.channel_values, newVersions)
    IN [i \in 1..Len(serializedBlobs) |->
           Stmt("UPSERT_CHECKPOINT_BLOBS_SQL", serializedBlobs[i])]

\* The statements of put between BEGIN and COMMIT: the blob upserts, then
\* the upsert of the checkpoint row.
PutStmts(config, checkpoint, metadata, newVersions) ==
    PutBlobStmts(config, checkpoint, newVersions)
    \o <<Stmt("UPSERT_CHECKPOINTS_SQL",
              [thread_id |-> config.thread_id,
               checkpoint_ns |-> OrElse(config.checkpoint_ns, ""),
               checkpoint_id |-> checkpoint.id,
               parent_checkpoint_id |-> config.checkpoint_id,
               checkpoint |-> DumpCheckpoint(checkpoint),
               metadata |-> DumpMetadata(metadata)])>>

\* put: the blobs of newVersions, then the checkpoint row, in one
\* transaction; returns the config of the checkpoint written.
PutCall(db, config, checkpoint, metadata, newVersions, fault) ==
    IF ~config.configurable
    THEN [ok |-> FALSE, value |-> None, db |-> db, trace |-> <<>>]
    ELSE
    LET thread_id == config.thread_id
        checkpoint_ns == OrElse(config.checkpoint_ns, "")
        nextConfig == Config(thread_id, Some(checkpoint_ns), Some(checkpoint.id))
        blobStmts == PutBlobStmts(config, checkpoint, newVersions)
        stmts == PutStmts(config, checkpoint, metadata, newVersions)
        tx == IF Throws(fault, "_dumpBlobs") /\ DumpsAValue(checkpoint.channel_values, newVersions)
              THEN ThrowAfter(db, <<>>)
              ELSE IF Throws(fault, "_dumpMetadata")
              THEN ThrowAfter(db, blobStmts)
              ELSE Transaction(db, stmts, fault, "error")
    IN IF Throws(fault, "_dumpCheckpoint")
       THEN [ok |-> FALSE, value |-> None, db |-> db, trace |-> <<"connect">>]
       ELSE Returns(tx, nextConfig)

\* putWrites choosing the upsert as soon as some write targets a channel of
\* WRITES_IDX_MAP.
WritesQuery_Some(ws) ==
    IF \E i \in 1..Len(ws) : Has(WRITES_IDX_MAP, ws[i][1])
    THEN "UPSERT_CHECKPOINT_WRITES_SQL"
    ELSE "INSERT_CHECKPOINT_WRITES_SQL"

\* putWrites choosing the insert for every batch.
WritesQuery_Insert(ws) == "INSERT_CHECKPOINT_WRITES_SQL"

\* The statement putWrites chooses for a batch: the upsert when every write
\* targets a channel of WRITES_IDX_MAP, else the insert.
WritesQuery(ws) ==
    IF \A i \in 1..Len(ws) : Has(WRITES_IDX_MAP, ws[i][1])
    THEN "UPSERT_CHECKPOINT_WRITES_SQL"
    ELSE "INSERT_CHECKPOINT_WRITES_SQL"

\* putWrites: the rows of the batch in one statement of one transaction.
PutWritesCall(db, config, ws, taskId, fault, onConflict) ==
    LET query == WritesQuery(ws)
        rows == DumpWrites(config.thread_id, config.checkpoint_ns,
                           config.checkpoint_id, taskId, ws)
        tx == IF Throws(fault, "_dumpWrites") /\ ws # <<>>
              THEN ThrowAfter(db, <<>>)
              ELSE Transaction(db, <<Stmt(query, rows)>>, fault, onConflict)
    IN [ok |-> tx.ok, value |-> None, db |-> tx.db, trace |-> tx.trace]

\* ------------------------------------------------------------------ actions

\* The record of one call: the operation, its arguments, whether it
\* returned (ok) or threw, the value returned, and the calls it made on the
\* pool and the client.
Call(op, args, r) ==
    [op |-> op, args |-> args, ok |-> r.ok, value |-> r.value, trace |-> r.trace]

NoCall ==
    [op |-> "none", args |-> <<>>, ok |-> TRUE, value |-> None, trace |-> <<>>]

\* The processes that call the saver at the same time, each on a
\* connection of its own.
Procs == {1, 2}

\* A process that has not called yet.  A transaction records the call and
\* its arguments, the number n of statements it has sent after BEGIN, the
\* number of calls that had committed when it began, and for setup the
\* version its SELECT returned.
IdleTx ==
    [status |-> "idle", op |-> "none", args |-> <<>>, n |-> 0, began |-> 0,
     version |-> -1]

\* A write call made the database r.db.
Commit(op, args, r) ==
    /\ Len(hist) < MaxOps
    /\ relations' = r.db.relations
    /\ migrations' = r.db.migrations
    /\ checkpoints' = r.db.checkpoints
    /\ blobs' = r.db.blobs
    /\ writes' = r.db.writes
    /\ hist' = Append(hist, Call(op, args, r))
    /\ ret' = Call(op, args, r)
    /\ UNCHANGED txs

Setup(fault) ==
    Commit("setup", [fault |-> fault], SetupCall(Db, fault))

Put(config, checkpoint, metadata, newVersions, fault) ==
    Commit("put",
           [config |-> config, checkpoint |-> checkpoint, metadata |-> metadata,
            newVersions |-> newVersions, fault |-> fault],
           PutCall(Db, config, checkpoint, metadata, newVersions, fault))

PutWrites(config, ws, taskId, fault, onConflict) ==
    Commit("putWrites",
           [config |-> config, writes |-> ws, taskId |-> taskId,
            fault |-> fault, onConflict |-> onConflict],
           PutWritesCall(Db, config, ws, taskId, fault, onConflict))

\* A read changes nothing but ret, so a read made right after another read
\* reaches the state it reaches right after the last write call: reads are
\* taken from the states a write call (or none) has left.
AfterWrite == ret.op \notin {"getTuple", "list"}

\* getTuple: a read; the query fails when a table it reads is missing.
GetTupleCall(config) ==
    /\ AfterWrite
    /\ ret' = Call("getTuple", [config |-> config],
                   [ok |-> CanSelect(Db),
                    value |-> IF CanSelect(Db) THEN GetTuple(Db, config) ELSE None,
                    trace |-> <<"query">>])
    /\ UNCHANGED <<relations, migrations, checkpoints, blobs, writes, hist, txs>>

\* list, run to its end: the tuples it yielded, in order.
ListCall(config, filter, before, limit) ==
    /\ AfterWrite
    /\ CanSelect(Db)
    /\ \E tuples \in List(Db, config, filter, before, limit) :
          ret' = Call("list",
                      [config |-> config, filter |-> filter, before |-> before,
                       limit |-> limit],
                      [ok |-> TRUE, value |-> tuples, trace |-> <<"query">>])
    /\ UNCHANGED <<relations, migrations, checkpoints, blobs, writes, hist, txs>>

\* ------------------------------------------------------------------- inputs

Id1 == <<49>>
Id10 == <<49, 48>>
Id2 == <<50>>

Task1 == <<97>>
Task2 == <<98>>

\* A checkpoint with the given id, values, versions and sends.
Checkpoint(id, values, versions, sends) ==
    [id |-> id, channel_values |-> values, channel_versions |-> versions,
     pending_sends |-> sends]

ValueMaps == {EmptyMap, Map1("x", 1), Map1("x", 2)}
VersionMaps == {EmptyMap, Map1("x", "v1"), Map1("x", "v2")}
NewVersionMaps == {None} \cup {Some(m) : m \in VersionMaps \ {EmptyMap}}

Meta0 == EmptyMap
MetaA == Map1("source", <<97>>)

\* The database with the first k migrations applied.
InitDb(k) ==
    /\ relations = Relations(k)
    /\ migrations = [i \in 1..k |-> i - 1]
    /\ checkpoints = {}
    /\ blobs = {}
    /\ writes = <<>>
    /\ hist = <<>>
    /\ ret = NoCall
    /\ txs = [p \in Procs |-> IdleTx]

\* ------------------------------------------------- put and the channel blobs

\* The database after setup, without rows.
Init == InitDb(Len(MIGRATIONS))

\* Puts into one thread and namespace, over every combination of channel
\* values, channel versions and newVersions of one channel.
PutBlobs ==
    /\ Len(hist) < MaxOps
    /\ \E id \in {Id1, Id2}, parent \in {None, Some(Id1)},
       values \in ValueMaps, versions \in VersionMaps, nv \in NewVersionMaps :
        /\ parent # Some(id)
        /\ Put(Config(Some("t1"), None, parent),
               Checkpoint(id, values, versions, <<>>), Meta0, nv, NoFault)

Next == PutBlobs

Spec == Init /\ [][Next]_vars

\* The last call was a put that returned.
PutReturned == ret.op = "put" /\ ret.ok

\* getTuple of the config a put returned: its thread, namespace and the id
\* of the checkpoint it wrote.
GetWritten(call) == GetTuple(Db, Get(call.value))

\* newVersions names every channel of the checkpoint's channel_versions at
\* the version recorded there, and every channel with a value has a version.
VersionsCovered(checkpoint, newVersions) ==
    /\ IsSome(newVersions)
    /\ Keys(checkpoint.channel_values) \subseteq Keys(checkpoint.channel_versions)
    /\ \A k \in Keys(checkpoint.channel_versions) :
          /\ Has(Get(newVersions), k)
          /\ Get(newVersions)[k] = checkpoint.channel_versions[k]

\* C1 as stated: after a put that returned, getTuple of the checkpoint
\* written returns a checkpoint whose channel_values are those passed to
\* put, whatever newVersions was and whatever was put before.  (Stated for
\* the checkpoints that record a version for every channel with a value:
\* the claim fails even for these.)
C1_AnyNewVersions ==
    (PutReturned /\ Keys(ret.args.checkpoint.channel_values)
                       \subseteq Keys(ret.args.checkpoint.channel_versions)) =>
        /\ IsSome(GetWritten(ret))
        /\ Get(GetWritten(ret)).checkpoint.channel_values
               = ret.args.checkpoint.channel_values

\* C1, amended: after a put that returned, whose newVersions names every
\* channel of the checkpoint's channel_versions at the version recorded
\* there and whose channel_values all have a version, getTuple of the
\* checkpoint written returns a checkpoint whose channel_values are those
\* passed to put, whatever was put before.
C1_ChannelValuesRoundTrip ==
    (PutReturned /\ VersionsCovered(ret.args.checkpoint, ret.args.newVersions)) =>
        /\ IsSome(GetWritten(ret))
        /\ Get(GetWritten(ret)).checkpoint.channel_values
               = ret.args.checkpoint.channel_values

\* C1's case: a second put into the thread, covered by its newVersions,
\* with a value for a channel, after a put that stored another value for
\* the channel under the same version.
C1_Witness ==
    /\ Len(hist) = 2 /\ hist[1].ok /\ PutReturned
    /\ VersionsCovered(ret.args.checkpoint, ret.args.newVersions)
    /\ ret.args.checkpoint.channel_values = Map1("x", 2)
    /\ hist[1].args.checkpoint.channel_values = Map1("x", 1)
    /\ hist[1].args.newVersions = ret.args.newVersions
    /\ Get(GetWritten(ret)).checkpoint.channel_values = Map1("x", 2)

\* What a put call asks the store to hold: for every channel k of its
\* newVersions, under the key (thread, namespace, k, newVersions[k]), the
\* value of k in its channel_values, None when it has none.
BlobsOf(call) ==
    LET c == call.args.config
        nv == call.args.newVersions
        values == call.args.checkpoint.channel_values
    IN IF call.op # "put" \/ ~IsSome(nv) THEN {}
       ELSE {[key |-> <<Get(c.thread_id), OrElse(c.checkpoint_ns, ""), k, Get(nv)[k]>>,
              channel |-> k,
              value |-> IF Has(values, k) THEN Some(values[k]) ELSE None] :
             k \in Keys(Get(nv))}

\* The channel values getTuple returns for the stored checkpoint row c.
ValuesRead(c) ==
    Get(GetTuple(Db, Config(Some(c.thread_id), Some(c.checkpoint_ns),
                            Some(c.checkpoint_id)))).checkpoint.channel_values

\* The value a blob row carries, None for the "empty" sentinel.
BlobValue(b) ==
    IF b.type = "empty" THEN None ELSE Some(LoadsTyped(b.type, Get(b.blob)))

\* An earlier put that returned wrote b1 and the last put, which returned,
\* wrote b2 under the same key with another value.
Rewritten(b1, b2) ==
    /\ PutReturned /\ Len(hist) >= 2
    /\ \E i \in 1..(Len(hist) - 1) : hist[i].ok /\ b1 \in BlobsOf(hist[i])
    /\ b2 \in BlobsOf(ret)
    /\ b1.key = b2.key
    /\ b1.value # b2.value

\* C6: when two puts that returned wrote a blob under the same (thread_id,
\* checkpoint_ns, channel, version) with different values, the table holds
\* one row for the key, which carries the value of the second put, and no
\* stored checkpoint that names the channel at that version reads the
\* first value: it reads the second.
C6_SecondBlobWins ==
    \A b1 \in UNION {BlobsOf(hist[i]) : i \in 1..Len(hist)} :
      \A b2 \in BlobsOf(ret) :
        Rewritten(b1, b2) =>
            /\ Cardinality({b \in blobs : BlobKey(b) = b2.key}) = 1
            /\ \A b \in blobs : BlobKey(b) = b2.key => BlobValue(b) = b2.value
            /\ \A c \in checkpoints :
                  ( /\ <<c.thread_id, c.checkpoint_ns>> = <<b2.key[1], b2.key[2]>>
                    /\ Has(c.checkpoint.channel_versions, b2.channel)
                    /\ c.checkpoint.channel_versions[b2.channel] = b2.key[4] ) =>
                      LET vs == ValuesRead(c)
                      IN IF IsSome(b2.value)
                         THEN Has(vs, b2.channel) /\ vs[b2.channel] = Get(b2.value)
                         ELSE ~Has(vs, b2.channel)

\* C6's case: the value 1 then the value 2 written under one key, and the
\* checkpoint of the first put, which names that key, now reads 2.
C6_Witness ==
    \E b1 \in UNION {BlobsOf(hist[i]) : i \in 1..Len(hist)} :
      \E b2 \in BlobsOf(ret) :
        /\ Rewritten(b1, b2)
        /\ b1.value = Some(1) /\ b2.value = Some(2)
        /\ hist[1].args.checkpoint.id # ret.args.checkpoint.id
        /\ \E c \in checkpoints :
              /\ c.checkpoint_id = hist[1].args.checkpoint.id
              /\ c.checkpoint.channel_values = Map1("x", 1)
              /\ ValuesRead(c) = Map1("x", 2)

\* The last two calls are puts that returned, c1 then c2, into one thread
\* and namespace: c1 stored a value of the channel x under the version it
\* records for x, and c2, whose id is the greatest stored and whose config
\* names c1, has no value for x while its newVersions names x at that
\* version.
Extends(c1, c2) ==
    /\ Len(hist) >= 2 /\ PutReturned
    /\ c2 = hist[Len(hist)] /\ c1 = hist[Len(hist) - 1]
    /\ c1.op = "put" /\ c1.ok
    /\ c1.args.config.thread_id = c2.args.config.thread_id
    /\ OrElse(c1.args.config.checkpoint_ns, "") = OrElse(c2.args.config.checkpoint_ns, "")
    /\ c2.args.config.checkpoint_id = Some(c1.args.checkpoint.id)
    /\ Has(c1.args.checkpoint.channel_values, "x")
    /\ Has(c1.args.checkpoint.channel_versions, "x")
    /\ c1.args.newVersions = Some(Map1("x", c1.args.checkpoint.channel_versions["x"]))
    /\ c2.args.newVersions = c1.args.newVersions
    /\ ~Has(c2.args.checkpoint.channel_values, "x")
    /\ \A c \in checkpoints :
          (c.thread_id = Get(c2.args.config.thread_id)
             /\ c.checkpoint_ns = OrElse(c2.args.config.checkpoint_ns, ""))
          => ~LexLess(c2.args.checkpoint.id, c.checkpoint_id)

Latest(call) ==
    GetTuple(Db, Config(call.args.config.thread_id, call.args.config.checkpoint_ns, None))

\* C7 as stated: getTuple without an id returns c2 with x absent, and
\* getTuple with the id of c1 still returns the value of x put with c1.
C7_FirstKeepsValue ==
    \A c1, c2 \in {hist[i] : i \in 1..Len(hist)} :
        Extends(c1, c2) =>
            /\ Get(Latest(c2)).config.checkpoint_id = Some(c2.args.checkpoint.id)
            /\ ~Has(Get(Latest(c2)).checkpoint.channel_values, "x")
            /\ Has(Get(GetWritten(c1)).checkpoint.channel_values, "x")
            /\ Get(GetWritten(c1)).checkpoint.channel_values["x"]
                   = c1.args.checkpoint.channel_values["x"]

\* C7, amended: when c2 records x at that same version or not at all,
\* getTuple without an id returns c2 with x absent, and getTuple with the
\* id of c1 returns c1 with x absent too: the put of c2 replaced the blob
\* that c1 reads by the "empty" sentinel.
C7_BothLoseValue ==
    \A c1, c2 \in {hist[i] : i \in 1..Len(hist)} :
        ( /\ Extends(c1, c2)
          /\ Has(c2.args.checkpoint.channel_versions, "x") =>
                Some(Map1("x", c2.args.checkpoint.channel_versions["x"]))
                    = c2.args.newVersions ) =>
            /\ Get(Latest(c2)).config.checkpoint_id = Some(c2.args.checkpoint.id)
            /\ ~Has(Get(Latest(c2)).checkpoint.channel_values, "x")
            /\ Get(GetWritten(c1)).config.checkpoint_id = Some(c1.args.checkpoint.id)
            /\ ~Has(Get(GetWritten(c1)).checkpoint.channel_values, "x")

\* C7's case: c1 put with x = 1 under v1, then c2 put extending c1 with
\* newVersions naming x at v1 and no value for x.
C7_Witness ==
    \E c1, c2 \in {hist[i] : i \in 1..Len(hist)} :
        /\ Extends(c1, c2)
        /\ c1.args.checkpoint.channel_values = Map1("x", 1)
        /\ c2.args.checkpoint.channel_versions = Map1("x", "v1")
        /\ c2.args.newVersions = Some(Map1("x", "v1"))
        /\ Get(Latest(c2)).checkpoint.channel_values = EmptyMap
        /\ Get(GetWritten(c1)).checkpoint.channel_values = EmptyMap

\* ------------------------------------------------------- getTuple and list

\* Puts into two threads and two namespaces under ids whose string order
\* is not their numeric order, then reads.
PutIds ==
    /\ Len(hist) < MaxOps
    /\ \E thread \in {"t1", "t2"}, ns \in {None, Some("n")}, id \in {Id10, Id2},
       metadata \in {Meta0, MetaA} :
        Put(Config(Some(thread), ns, None),
            Checkpoint(id, Map1("x", 1), Map1("x", "v1"), <<>>),
            metadata, Some(Map1("x", "v1")), NoFault)

GetAny ==
    /\ AfterWrite
    /\ \E thread \in {"t1", "t2"}, ns \in {None, Some(""), Some("n")},
       id \in {None, Some(<<>>), Some(Id10)} :
        GetTupleCall(Config(Some(thread), ns, id))

ListConfigs ==
    {NoConfigurable, Config(Some("t1"), None, None),
     Config(Some("t1"), Some(""), None), Config(Some("t1"), Some("n"), None),
     Config(Some("t2"), None, Some(Id2))}

ListAny ==
    /\ AfterWrite
    /\ \E config \in ListConfigs, filter \in {None, Some(MetaA)},
       before \in {None, Some(Config(None, None, Some(Id10))),
                   Some(Config(None, None, Some(Id2)))},
       limit \in {None, Some(1), Some(2)} :
        ListCall(config, filter, before, limit)

NextList == PutIds \/ GetAny \/ ListAny

SpecList == Init /\ [][NextList]_vars

\* The stored checkpoint rows of a thread and namespace.
Stored(thread, ns) ==
    {c \in checkpoints : c.thread_id = thread /\ c.checkpoint_ns = ns}

\* The last call was getTuple with a thread and no checkpoint id.
GotLatest ==
    /\ ret.op = "getTuple"
    /\ IsSome(ret.args.config.thread_id)
    /\ ~Truthy(ret.args.config.checkpoint_id)

\* C3: getTuple with a thread and namespace and no checkpoint id does not
\* throw; it returns no value exactly when no checkpoint is stored for the
\* thread and namespace, and else the stored checkpoint of that thread and
\* namespace whose id is the greatest in string order.
C3_LatestIsGreatestId ==
    GotLatest =>
        LET rows == Stored(Get(ret.args.config.thread_id),
                           OrElse(ret.args.config.checkpoint_ns, ""))
        IN /\ ret.ok
           /\ (rows = {}) <=> (ret.value = None)
           /\ rows # {} =>
                \E c \in rows :
                    /\ \A q \in rows \ {c} : LexLess(q.checkpoint_id, c.checkpoint_id)
                    /\ Get(ret.value).config.checkpoint_id = Some(c.checkpoint_id)
                    /\ Get(ret.value).checkpoint.id = c.checkpoint.id
                    /\ Get(ret.value).metadata = c.metadata

\* C3's case: "2" was put before "10" in one thread and namespace, and
\* getTuple without an id returned "2".
C3_Witness ==
    /\ GotLatest /\ Len(hist) = 2
    /\ hist[1].args.checkpoint.id = Id2 /\ hist[2].args.checkpoint.id = Id10
    /\ Cardinality(Stored(Get(ret.args.config.thread_id),
                          OrElse(ret.args.config.checkpoint_ns, ""))) = 2
    /\ Get(ret.value).config.checkpoint_id = Some(Id2)

\* The last call was list with an identity, no metadata filter, no cursor
\* and a limit.
ListedWithLimit ==
    /\ ret.op = "list"
    /\ ret.args.config.configurable /\ IsSome(ret.args.config.thread_id)
    /\ ret.args.filter = None /\ ret.args.before = None
    /\ IsSome(ret.args.limit)

\* The stored rows an identity matches.
Matching(config) ==
    {c \in checkpoints :
        /\ config.thread_id = Some(c.thread_id)
        /\ IsSome(config.checkpoint_ns) => Get(config.checkpoint_ns) = c.checkpoint_ns
        /\ IsSome(config.checkpoint_id) => Get(config.checkpoint_id) = c.checkpoint_id}

TupleKey(t) ==
    <<Get(t.config.thread_id), Get(t.config.checkpoint_ns), Get(t.config.checkpoint_id)>>

\* Every matching row is yielded exactly once.
YieldsAll(tuples, rows) ==
    /\ Len(tuples) = Cardinality(rows)
    /\ \A c \in rows : \E i \in 1..Len(tuples) : TupleKey(tuples[i]) = CheckpointKey(c)

\* C4 as stated: list with an identity, no filter and limit N yields at
\* most N tuples, their ids strictly descending from one to the next, and
\* every matching checkpoint once when N is at least their number.
C4_StrictlyDescending ==
    ListedWithLimit =>
        LET tuples == ret.value
            N == Get(ret.args.limit)
        IN /\ Len(tuples) <= N
           /\ \A i \in 1..(Len(tuples) - 1) :
                 LexLess(Get(tuples[i + 1].config.checkpoint_id),
                         Get(tuples[i].config.checkpoint_id))
           /\ N >= Cardinality(Matching(ret.args.config)) =>
                 YieldsAll(tuples, Matching(ret.args.config))

\* C4, amended: list with an identity, no filter and limit N yields at
\* most N tuples, their ids never ascending from one to the next and
\* strictly descending between two tuples of the same namespace, and every
\* matching checkpoint once when N is at least their number.
C4_Descending ==
    ListedWithLimit =>
        LET tuples == ret.value
            N == Get(ret.args.limit)
        IN /\ Len(tuples) <= N
           /\ \A i \in 1..(Len(tuples) - 1) :
                 /\ ~LexLess(Get(tuples[i].config.checkpoint_id),
                             Get(tuples[i + 1].config.checkpoint_id))
                 /\ tuples[i].config.checkpoint_ns = tuples[i + 1].config.checkpoint_ns =>
                        LexLess(Get(tuples[i + 1].config.checkpoint_id),
                                Get(tuples[i].config.checkpoint_id))
           /\ N >= Cardinality(Matching(ret.args.config)) =>
                 YieldsAll(tuples, Matching(ret.args.config))

\* C4's case: a thread-only identity, two checkpoints of the thread with
\* different ids, both yielded under limit 2, "2" before "10".
C4_Witness ==
    /\ ListedWithLimit
    /\ ret.args.config = Config(Some("t1"), None, None)
    /\ ret.args.limit = Some(2)
    /\ Len(ret.value) = 2
    /\ ret.value[1].config.checkpoint_id = Some(Id2)
    /\ ret.value[2].config.checkpoint_id = Some(Id10)

\* C5: list with a before cursor that has the checkpoint id B yields no
\* tuple whose id is B or greater than B in string order, whatever the
\* identity, the metadata filter and the limit.
C5_BeforeIsExclusive ==
    ( /\ ret.op = "list"
      /\ IsSome(ret.args.before)
      /\ Get(ret.args.before).configurable
      /\ IsSome(Get(ret.args.before).checkpoint_id) ) =>
        \A i \in 1..Len(ret.value) :
            LexLess(Get(ret.value[i].config.checkpoint_id),
                    Get(Get(ret.args.before).checkpoint_id))

\* C5's case: "10" and "2" are stored in the thread, and list before "2"
\* yielded "10" alone.
C5_Witness ==
    /\ ret.op = "list"
    /\ ret.args.before = Some(Config(None, None, Some(Id2)))
    /\ ret.args.config = Config(Some("t1"), Some(""), None)
    /\ ret.args.limit = None
    /\ {c.checkpoint_id : c \in Stored("t1", "")} = {Id10, Id2}
    /\ Len(ret.value) = 1
    /\ ret.value[1].config.checkpoint_id = Some(Id10)

\* ------------------------------------------------ putWrites and the sends

\* The batches of writes (channel, value): reserved channels alone, other
\* channels alone, and both.
Batches ==
    {<<<<"__start__", 1>>>>, <<<<"__start__", 2>>>>,
     <<<<"x", 1>>>>, <<<<"x", 2>>>>,
     <<<<"__start__", 1>>, <<"x", 1>>>>, <<<<"__start__", 1>>, <<"x", 2>>>>,
     <<<<"x", 1>>, <<"__start__", 1>>>>,
     <<<<"__start__", 1>>, <<"__start__", 2>>>>,
     <<<<TASKS, 2>>>>,
     <<<<TASKS, 1>>, <<TASKS, 2>>>>}

PutWritesAny ==
    /\ Len(hist) < MaxOps
    /\ \E id \in {Id1, Id2}, ws \in Batches, taskId \in {Task1, Task2},
       onConflict \in {"error", "nothing"} :
        PutWrites(Config(Some("t1"), Some(""), Some(id)), ws, taskId,
                  NoFault, onConflict)

\* Puts of the checkpoint "2", with or without the parent "1", with and
\* without pending sends.
PutSends ==
    /\ Len(hist) < MaxOps
    /\ \E parent \in {None, Some(Id1)}, sends \in {<<>>, <<1>>, <<2, 1>>} :
        Put(Config(Some("t1"), None, parent),
            Checkpoint(Id2, Map1("x", 1), Map1("x", "v1"), sends),
            Meta0, Some(Map1("x", "v1")), NoFault)

NextWrites == PutWritesAny \/ PutSends

SpecWrites == Init /\ [][NextWrites]_vars

ParentSends(call) ==
    {w \in Range(writes) :
        /\ Some(w.thread_id) = call.args.config.thread_id
        /\ w.checkpoint_ns = OrElse(call.args.config.checkpoint_ns, "")
        /\ Some(w.checkpoint_id) = call.args.config.checkpoint_id
        /\ w.channel = TASKS}

Repeated ==
    /\ Len(hist) >= 2
    /\ hist[Len(hist)].op = "putWrites" /\ hist[Len(hist) - 1].op = "putWrites"
    /\ hist[Len(hist) - 1].ok
    /\ hist[Len(hist)].args.config = hist[Len(hist) - 1].args.config
    /\ hist[Len(hist)].args.taskId = hist[Len(hist) - 1].args.taskId
    /\ hist[Len(hist)].args.writes = hist[Len(hist) - 1].args.writes

Reserved(channel) == Has(WRITES_IDX_MAP, channel)

\* The stored rows with the key of the write at position i of the last
\* putWrites call: idx is the reserved index of the write's channel, or
\* i - 1 for another channel.
RowsOfWrite(call, i) ==
    LET w == call.args.writes[i]
        idx == IF Reserved(w[1]) THEN WRITES_IDX_MAP[w[1]] ELSE i - 1
    IN {j \in 1..Len(writes) :
          WriteKey(writes[j]) = <<Get(call.args.config.thread_id),
                                  Get(call.args.config.checkpoint_ns),
                                  Get(call.args.config.checkpoint_id),
                                  call.args.taskId, idx>>}

\* C8: when putWrites is called twice with the same config, task id and
\* batch of writes to reserved channels, the second call returns and the
\* table holds one row for the key of every write of the batch.
C8_ReservedWritesUpsert ==
    (Repeated /\ \A i \in 1..Len(ret.args.writes) : Reserved(ret.args.writes[i][1])) =>
        /\ ret.ok
        /\ \A i \in 1..Len(ret.args.writes) : Cardinality(RowsOfWrite(ret, i)) = 1

\* C8's case: a batch of one write to the reserved channel put twice.
C8_Witness ==
    /\ Repeated
    /\ ret.args.writes = <<<<"__start__", 1>>>>
    /\ ret.ok
    /\ \E j \in 1..Len(writes) : writes[j].channel = "__start__" /\ writes[j].idx = 0

\* The last call is a putWrites whose batch has a write to a channel that
\* is not reserved.
NotAllReserved(call) ==
    /\ call.op = "putWrites"
    /\ \E i \in 1..Len(call.args.writes) : ~Reserved(call.args.writes[i][1])

\* C9 as stated: after two putWrites calls with the same config, task id
\* and batch, the table holds two rows for every write of the batch to a
\* channel that is not reserved.
C9_TwoRows ==
    (Repeated /\ NotAllReserved(ret)) =>
        \A i \in 1..Len(ret.args.writes) :
            ~Reserved(ret.args.writes[i][1]) => Cardinality(RowsOfWrite(ret, i)) = 2

\* C9, amended: a putWrites call whose batch has a write to a channel that
\* is not reserved neither changes nor removes a stored row (the rows
\* before the call are the first rows after it), and when the call repeats
\* the call before it, which returned, it adds no row either: the table
\* still holds one row under the key of each such write.
C9_InsertOnly ==
    [][ (hist' # hist /\ NotAllReserved(ret')) =>
            /\ Len(writes') >= Len(writes)
            /\ SubSeq(writes', 1, Len(writes)) = writes
            /\ Repeated' =>
                  /\ writes' = writes
                  /\ \A i \in 1..Len(ret'.args.writes) :
                        ~Reserved(ret'.args.writes[i][1]) =>
                            Cardinality(RowsOfWrite(ret, i)') = 1 ]_vars

\* C9's case: a batch with a write to a channel that is not reserved, put
\* twice: one row is stored for it.
C9_Witness ==
    /\ Repeated /\ NotAllReserved(ret)
    /\ ret.args.writes = <<<<"__start__", 1>>, <<"x", 1>>>>
    /\ Cardinality(RowsOfWrite(ret, 2)) = 1
    /\ Len(writes) = 2

\* The idx of the write at position i (1-based here) of the batch of a
\* putWrites call: the reserved index of its channel, or its 0-based
\* position in the batch.
ClaimedIdx(call, i) ==
    LET channel == call.args.writes[i][1]
    IN IF Reserved(channel) THEN WRITES_IDX_MAP[channel] ELSE i - 1

\* The row r is the row of the write at position i of the call's batch.
RowOfWrite(call, r, i) ==
    /\ r.thread_id = Get(call.args.config.thread_id)
    /\ r.checkpoint_id = Get(call.args.config.checkpoint_id)
    /\ r.task_id = call.args.taskId
    /\ r.channel = call.args.writes[i][1]
    /\ r.idx = ClaimedIdx(call, i)

Sent(call, sql) == \E n \in 1..Len(call.trace) : call.trace[n] = sql

\* C15: a putWrites call that returns leaves a row under the key of every
\* write of its batch, with idx the reserved index of the write's channel
\* or else the write's position; every row it added or changed is the row
\* of a write of the batch with that idx; and it sent the upsert statement
\* when every write of the batch is to a reserved channel, the insert-only
\* statement otherwise.
C15_IdxAndStatement ==
    [][ (hist' # hist /\ ret'.op = "putWrites" /\ ret'.ok) =>
          /\ \A i \in 1..Len(ret'.args.writes) : RowsOfWrite(ret, i)' # {}
          /\ \A j \in 1..Len(writes') :
                (j > Len(writes) \/ writes'[j] # writes[j]) =>
                    \E i \in 1..Len(ret'.args.writes) :
                        RowOfWrite(ret', writes'[j], i)
          /\ Sent(ret', "UPSERT_CHECKPOINT_WRITES_SQL")
                <=> \A i \in 1..Len(ret'.args.writes) :
                        Reserved(ret'.args.writes[i][1])
          /\ Sent(ret', "INSERT_CHECKPOINT_WRITES_SQL")
                <=> \E i \in 1..Len(ret'.args.writes) :
                        ~Reserved(ret'.args.writes[i][1]) ]_vars

\* C15's case: the batch of a write to the reserved channel "__start__"
\* and a write to the channel "x" is stored by the insert-only statement
\* with idx 0 for the first and idx 1, its position, for the second.
C15_Witness ==
    /\ ret.op = "putWrites" /\ ret.ok
    /\ ret.args.writes = <<<<"__start__", 1>>, <<"x", 2>>>>
    /\ Sent(ret, "INSERT_CHECKPOINT_WRITES_SQL")
    /\ Len(writes) = 2
    /\ writes[1].channel = "__start__" /\ writes[1].idx = 0
    /\ writes[2].channel = "x" /\ writes[2].idx = 1

\* ----------------------------------------------------------- pending writes

\* The checkpoint "1" put on the thread "t1", the namespace given as "" or
\* left out.
PutOne ==
    /\ Len(hist) < MaxOps
    /\ \E ns \in {None, Some("")} :
        Put(Config(Some("t1"), ns, None),
            Checkpoint(Id1, Map1("x", 1), Map1("x", "v1"), <<>>),
            Meta0, Some(Map1("x", "v1")), NoFault)

NsBatches ==
    {<<<<"x", 1>>>>, <<<<"x", 2>>>>, <<<<"__start__", 1>>, <<"x", 2>>>>,
     <<<<"__start__", 1>>, <<"__start__", 2>>>>}

\* putWrites for the checkpoint "1" of the thread "t1", the namespace
\* given as "" or left out.
PutWritesNs ==
    /\ Len(hist) < MaxOps
    /\ \E ns \in {None, Some("")}, ws \in NsBatches,
       onConflict \in {"error", "nothing"} :
        PutWrites(Config(Some("t1"), ns, Some(Id1)), ws, Task1, NoFault, onConflict)

GetOne ==
    /\ AfterWrite
    /\ \E ns \in {None, Some("")} : GetTupleCall(Config(Some("t1"), ns, Some(Id1)))

NextPending == PutOne \/ PutWritesNs \/ GetOne

SpecPending == Init /\ [][NextPending]_vars

\* A put of the checkpoint "1" returned.
PutOneReturned == \E k \in 1..Len(hist) : hist[k].op = "put" /\ hist[k].ok

\* getTuple of the checkpoint "1" on the database db has the triple of
\* every write of the call's batch.
ReadsBack(db, call) ==
    LET t == GetTuple(db, Config(Some("t1"), None, Some(Id1)))
    IN /\ IsSome(t)
       /\ \A i \in 1..Len(call.args.writes) :
             \E j \in 1..Len(Get(t).pendingWrites) :
                Get(t).pendingWrites[j] =
                    <<call.args.taskId, call.args.writes[i][1], call.args.writes[i][2]>>

DistinctIdx(call) ==
    \A i, j \in 1..Len(call.args.writes) :
        ClaimedIdx(call, i) = ClaimedIdx(call, j) => i = j

ChainIds == {Id1, Id10, Id2}

\* The first put of a chain: no incoming checkpoint id.
PutFirst ==
    /\ hist = <<>>
    /\ \E thread \in {"t1", "t2"}, ns \in {None, Some(""), Some("n")},
       id \in ChainIds :
        Put(Config(Some(thread), ns, None),
            Checkpoint(id, Map1("x", 1), Map1("x", "v1"), <<>>),
            Meta0, Some(Map1("x", "v1")), NoFault)

\* A put given the identity that the put before it returned, of a
\* checkpoint with an id the chain has not used.
PutNext ==
    /\ hist # <<>> /\ Len(hist) < MaxOps
    /\ \E id \in ChainIds \ {hist[k].args.checkpoint.id : k \in 1..Len(hist)} :
        Put(Get(hist[Len(hist)].value),
            Checkpoint(id, Map1("x", 2), Map1("x", "v2"), <<>>),
            MetaA, Some(Map1("x", "v2")), NoFault)

\* getTuple of the identity a put of the chain returned.
GetChained ==
    /\ AfterWrite
    /\ \E k \in 1..Len(hist) : GetTupleCall(Get(hist[k].value))

NextChain == PutFirst \/ PutNext \/ GetChained

SpecChain == Init /\ [][NextChain]_vars

\* The identity the k-th put of the chain returns: its thread, its
\* namespace or "", and the id of its checkpoint.
Returned(k) ==
    Config(hist[1].args.config.thread_id,
           Some(OrElse(hist[1].args.config.checkpoint_ns, "")),
           Some(hist[k].args.checkpoint.id))

\* C17: every put of a chain returns the identity of thread, namespace
\* (or "") and checkpoint.id; the stored row's parent is the checkpoint id
\* of the identity the put was given; getTuple of the first checkpoint has
\* no parent identity and getTuple of every later one has the identity the
\* put before it returned.
C17_ParentChain ==
    \A k \in 1..Len(hist) :
        /\ hist[k].ok /\ hist[k].value = Some(Returned(k))
        /\ \E c \in checkpoints :
              /\ CheckpointKey(c) = <<Get(Returned(k).thread_id),
                                      Get(Returned(k).checkpoint_ns),
                                      hist[k].args.checkpoint.id>>
              /\ c.parent_checkpoint_id = hist[k].args.config.checkpoint_id
        /\ LET t == GetTuple(Db, Returned(k))
           IN /\ IsSome(t)
              /\ Get(t).config = Returned(k)
              /\ Get(t).parentConfig =
                    IF k = 1 THEN None ELSE Some(Returned(k - 1))

\* C17's case: a chain of two puts in the namespace left out, and getTuple
\* of the second checkpoint returned the first as its parent.
C17_Witness ==
    /\ Len(hist) = 2
    /\ hist[1].args.config.checkpoint_ns = None
    /\ hist[1].args.checkpoint.id = Id10 /\ hist[2].args.checkpoint.id = Id2
    /\ ret.op = "getTuple" /\ IsSome(ret.value)
    /\ Get(ret.value).config.checkpoint_id = Some(Id2)
    /\ Get(ret.value).parentConfig = Some(Config(Some("t1"), Some(""), Some(Id10)))

\* ------------------------------------------------------------------ threads

Threads == {"t1", "t2"}

\* Puts of the checkpoints "1" and "2" on two threads, the channel "x" at
\* the same version with one of two values.
PutThread ==
    /\ Len(hist) < MaxOps
    /\ \E thread \in Threads, id \in {Id1, Id2}, v \in {1, 2} :
        Put(Config(Some(thread), None, None),
            Checkpoint(id, Map1("x", v), Map1("x", "v1"), <<>>),
            Meta0, Some(Map1("x", "v1")), NoFault)

\* putWrites for the checkpoint "1" of either thread by the same task.
PutWritesThread ==
    /\ Len(hist) < MaxOps
    /\ \E thread \in Threads, ws \in {<<<<"x", 1>>>>, <<<<"__start__", 2>>>>},
       onConflict \in {"error", "nothing"} :
        PutWrites(Config(Some(thread), Some(""), Some(Id1)), ws, Task1,
                  NoFault, onConflict)

\* The identities a reader of the thread asks for.
ThreadReads(thread) ==
    {Config(Some(thread), None, id) : id \in {None, Some(Id1)}}

GetThread ==
    /\ AfterWrite
    /\ \E thread \in Threads : \E config \in ThreadReads(thread) :
        GetTupleCall(config)

ListThread ==
    /\ AfterWrite
    /\ \E thread \in Threads :
        ListCall(Config(Some(thread), None, None), None, None, None)

NextThreads == PutThread \/ PutWritesThread \/ GetThread \/ ListThread

SpecThreads == Init /\ [][NextThreads]_vars

\* The rows of the database that are not rows of the thread.
OtherRows(db, thread) ==
    [checkpoints |-> {c \in db.checkpoints : c.thread_id # thread},
     blobs |-> {b \in db.blobs : b.thread_id # thread},
     writes |-> SelectSeq(db.writes, LAMBDA w : w.thread_id # thread)]

\* The database after the calls h[1..k] on the thread alone, from the
\* database without rows.
RECURSIVE ThreadOnly(_, _, _)
ThreadOnly(h, k, thread) ==
    IF k = 0
    THEN [relations |-> Relations(Len(MIGRATIONS)),
          migrations |-> [i \in 1..Len(MIGRATIONS) |-> i - 1],
          checkpoints |-> {}, blobs |-> {}, writes |-> <<>>]
    ELSE LET db == ThreadOnly(h, k - 1, thread)
             a == h[k].args
         IN IF a.config.thread_id # Some(thread) THEN db
            ELSE IF h[k].op = "put"
            THEN PutCall(db, a.config, a.checkpoint, a.metadata,
                         a.newVersions, a.fault).db
            ELSE PutWritesCall(db, a.config, a.writes, a.taskId, a.fault,
                               a.onConflict).db

\* C20: a put or putWrites call on a thread leaves every checkpoint, blob
\* and pending-write row of the other threads as it was; after it getTuple
\* and list return for every thread what they return when the calls on
\* that thread alone have run; and getTuple and list change no table.
C20_ThreadsApart ==
    [][ /\ (hist' # hist /\ ret'.op \in {"put", "putWrites"}) =>
            /\ OtherRows(Db', Get(ret'.args.config.thread_id))
                  = OtherRows(Db, Get(ret'.args.config.thread_id))
            /\ \A thread \in Threads : \A c \in ThreadReads(thread) :
                  /\ GetTuple(Db', c)
                        = GetTuple(ThreadOnly(hist', Len(hist'), thread), c)
                  /\ List(Db', c, None, None, None)
                        = List(ThreadOnly(hist', Len(hist'), thread), c,
                               None, None, None)
        /\ ret'.op \in {"getTuple", "list"} =>
            UNCHANGED <<relations, migrations, checkpoints, blobs, writes>> ]_vars

\* C20's case: the checkpoint "1" was put on the thread "t1" with the
\* value 1 and then on the thread "t2" with the value 2 at the same
\* channel version, and getTuple for "t1" returned the value 1.
C20_Witness ==
    /\ Len(hist) = 2
    /\ hist[1].op = "put" /\ hist[1].args.config.thread_id = Some("t1")
    /\ hist[1].args.checkpoint = Checkpoint(Id1, Map1("x", 1), Map1("x", "v1"), <<>>)
    /\ hist[2].op = "put" /\ hist[2].args.config.thread_id = Some("t2")
    /\ hist[2].args.checkpoint = Checkpoint(Id1, Map1("x", 2), Map1("x", "v1"), <<>>)
    /\ ret.op = "getTuple" /\ ret.args.config.thread_id = Some("t1")
    /\ IsSome(ret.value)
    /\ Get(ret.value).checkpoint.channel_values = Map1("x", 1)

\* ---------------------------------------------------------- concurrent puts

\* Two statements write the row of one key.
SameRow(s1, s2) ==
    /\ s1.sql = s2.sql
    /\ s1.args.thread_id = s2.args.thread_id
    /\ s1.args.checkpoint_ns = s2.args.checkpoint_ns
    /\ IF s1.sql = "UPSERT_CHECKPOINT_BLOBS_SQL"
       THEN s1.args.channel = s2.args.channel /\ s1.args.version = s2.args.version
       ELSE s1.args.checkpoint_id = s2.args.checkpoint_id

\* No row is locked: a statement never waits.
Locked_Never(p, s) == FALSE

\* The statements of the put that the transaction runs.
TxStmts(tx) ==
    PutStmts(tx.args.config, tx.args.checkpoint, tx.args.metadata,
             tx.args.newVersions)

\* The row that the statement s of the process p writes is locked: the
\* open transaction of another process has written it.  The store makes
\* the statement wait until that transaction ends.
Locked(p, s) ==
    \E q \in Procs \ {p} :
        /\ txs[q].status = "open"
        /\ \E i \in 1..txs[q].n : SameRow(TxStmts(txs[q])[i], s)

\* A process calls put for the checkpoint "1" of the thread "t1": connect
\* and BEGIN.
BeginPut ==
    /\ Len(hist) < MaxOps
    /\ \E p \in Procs, v \in {1, 2}, ver \in {"v1", "v2"},
          metadata \in {Meta0, MetaA}, named \in BOOLEAN :
        /\ txs[p].status = "idle"
        /\ txs' = [txs EXCEPT ![p] =
                     [status |-> "open", op |-> "put",
                      args |-> [config |-> Config(Some("t1"), None, None),
                                checkpoint |-> Checkpoint(Id1, Map1("x", v),
                                                          Map1("x", ver), <<>>),
                                metadata |-> metadata,
                                newVersions |-> IF named THEN Some(Map1("x", ver))
                                                         ELSE None,
                                fault |-> NoFault],
                      n |-> 0, began |-> Len(hist), version |-> -1]]
        /\ UNCHANGED <<relations, migrations, checkpoints, blobs, writes, hist, ret>>

\* The next statement of an open put, when the row it writes is not
\* locked: the row is written, and is visible to others after COMMIT.
StepPut ==
    /\ Len(hist) < MaxOps
    /\ \E p \in Procs :
        /\ txs[p].status = "open" /\ txs[p].op = "put"
        /\ txs[p].n < Len(TxStmts(txs[p]))
        /\ LET stmt == TxStmts(txs[p])[txs[p].n + 1]
               r == Exec(Db, stmt, "error")
           IN /\ ~Locked(p, stmt)
              /\ r.ok
              /\ checkpoints' = r.db.checkpoints
              /\ blobs' = r.db.blobs
        /\ txs' = [txs EXCEPT ![p].n = @ + 1]
        /\ UNCHANGED <<relations, migrations, writes, hist, ret>>

\* COMMIT and release of a put that has sent all its statements; put
\* returns the config of the checkpoint.
CommitPut ==
    /\ Len(hist) < MaxOps
    /\ \E p \in Procs :
        /\ txs[p].status = "open" /\ txs[p].op = "put"
        /\ txs[p].n = Len(TxStmts(txs[p]))
        /\ LET a == txs[p].args
               call == Call("put", a,
                            PutCall(Db, a.config, a.checkpoint, a.metadata,
                                    a.newVersions, a.fault))
           IN /\ hist' = Append(hist, call)
              /\ ret' = call
        /\ txs' = [txs EXCEPT ![p].status = "committed"]
        /\ UNCHANGED <<relations, migrations, checkpoints, blobs, writes>>

NextRace == BeginPut \/ StepPut \/ CommitPut

SpecRace == Init /\ [][NextRace]_vars

\* Both puts have committed; hist holds them in the order of their commits.
BothCommitted == \A p \in Procs : txs[p].status = "committed" /\ txs[p].op = "put"

\* getTuple of the identity returns the checkpoint and the metadata that
\* the call was given.
ReturnsPutOf(call) ==
    LET t == GetTuple(Db, Get(call.value))
    IN /\ IsSome(t)
       /\ Get(t).checkpoint = call.args.checkpoint
       /\ Get(t).metadata = call.args.metadata

SetupQueries == 1..(2 * Len(MIGRATIONS) + 3)

\* A store migrated up to any step: none (no ledger), some, all.
InitSetup == \E k \in 0..Len(MIGRATIONS) : InitDb(k)

SetupAny ==
    /\ Len(hist) < MaxOps
    /\ \E fault \in {NoFault} \cup {QueryFault(n) : n \in SetupQueries} :
        Setup(fault)

NextSetup == SetupAny

SpecSetup == InitSetup /\ [][NextSetup]_vars

\* The calls made so far are setup calls none of whose queries was rejected
\* for a reason outside the program.
OnlySetups ==
    /\ hist # <<>>
    /\ \A i \in 1..Len(hist) :
          hist[i].op = "setup" /\ hist[i].args.fault = NoFault

\* The ledger holds one row for every index of MIGRATIONS.
LedgerComplete ==
    /\ "checkpoint_migrations" \in relations
    /\ Len(migrations) = Len(MIGRATIONS)
    /\ \A v \in 0..(Len(MIGRATIONS) - 1) :
          Cardinality({i \in 1..Len(migrations) : migrations[i] = v}) = 1

\* C10 as stated: starting from a store with no migrations ledger, the
\* first setup call returns and leaves a ledger with one row for every index
\* of MIGRATIONS; the setup call that follows it returns too, leaves the
\* ledger so, and executes no migration DDL.
C10_SetupTwice ==
    [][ OnlySetups' =>
          /\ (hist = <<>> /\ "checkpoint_migrations" \notin relations) =>
                (ret'.ok /\ LedgerComplete')
          /\ (Len(hist) = 1 /\ ret.ok /\ LedgerComplete) =>
                /\ ret'.ok
                /\ LedgerComplete'
                /\ \A i \in 1..Len(ret'.trace) : ret'.trace[i] # "MIGRATION" ]_vars

\* The call threw while running a migration step or its ledger insert.
FailedInMigration(call) ==
    /\ call.op = "setup" /\ ~call.ok
    /\ \E i \in 1..Len(call.trace) : call.trace[i] = "MIGRATION"

\* ROLLBACK is the last query of the call, followed by the release.
RolledBack(call) ==
    /\ Len(call.trace) >= 2
    /\ call.trace[Len(call.trace) - 1] = "ROLLBACK"
    /\ call.trace[Len(call.trace)] = "release"

\* C11 as stated: a setup call that fails in a migration step or its ledger
\* insert rolls back before it rethrows and leaves the schema and the
\* ledger as they were, and the setup call made after it, none of whose
\* queries is rejected for an outside reason, returns with a ledger that
\* holds every index of MIGRATIONS once.
C11_FailedSetupResumes ==
    [][ (hist' # hist /\ ret'.op = "setup") =>
          /\ FailedInMigration(ret') =>
                /\ RolledBack(ret')
                /\ relations' = relations
                /\ migrations' = migrations
          /\ (FailedInMigration(ret) /\ ret'.args.fault = NoFault) =>
                (ret'.ok /\ LedgerComplete') ]_vars

\* -------------------------------------------------------- concurrent setups

\* The loop of setup starts at the step after the version it read.
FirstStep_SkipsOne(version) == version + 2

FirstStep(version) == version + 1

\* The migration step that the open setup of the process runs next.
NextStep(tx) == FirstStep(tx.version) + tx.n

\* The versions the transaction has inserted into the ledger.
Inserted(tx) == {FirstStep(tx.version) + i : i \in 0..(tx.n - 1)}

\* The ledger is keyed by version: a transaction of another process that
\* has not ended has inserted the version v, and the store makes an insert
\* of v wait for its end.
LockedVersion(p, v) ==
    \E q \in Procs \ {p} :
        txs[q].status \in {"open", "doomed"} /\ v \in Inserted(txs[q])

\* The ledger holds the version v: an insert of v fails on the duplicate
\* key and aborts its transaction.
TakenVersion(v) == \E i \in 1..Len(migrations) : migrations[i] = v

\* The calls a setup made on the pool and the client before it ended.
SetupTrace(tx) ==
    LET steps == [i \in 1..(2 * tx.n) |-> IF i % 2 = 1 THEN "MIGRATION" ELSE "INSERT"]
    IN <<"connect", "BEGIN", "SELECT">> \o steps

\* Databases with the ledger of the first k migrations, and two processes
\* that have not called.
InitSetups == \E k \in 0..Len(MIGRATIONS) : InitDb(k)

\* A process calls setup: connect and BEGIN.
BeginSetup ==
    /\ Len(hist) < MaxOps
    /\ \E p \in Procs :
        /\ txs[p].status = "idle"
        /\ txs' = [txs EXCEPT ![p] =
                     [status |-> "begun", op |-> "setup",
                      args |-> [fault |-> NoFault], n |-> 0,
                      began |-> Len(hist), version |-> -1]]
        /\ UNCHANGED <<relations, migrations, checkpoints, blobs, writes, hist, ret>>

\* The SELECT of the highest version among the committed rows of the
\* ledger.  Without the ledger the query fails, the catch takes the
\* version as -1, and the store rejects what the transaction sends next.
SelectSetup ==
    /\ Len(hist) < MaxOps
    /\ \E p \in Procs :
        /\ txs[p].status = "begun"
        /\ txs' = IF "checkpoint_migrations" \in relations
                  THEN [txs EXCEPT ![p].status = "open",
                                   ![p].version = MaxOf(migrations)]
                  ELSE [txs EXCEPT ![p].status = "doomed", ![p].version = -1]
        /\ UNCHANGED <<relations, migrations, checkpoints, blobs, writes, hist, ret>>

\* One turn of the loop: the DDL of the step and the insert of its index
\* into the ledger.  The insert waits while another transaction holds the
\* index, and fails when the ledger holds it.
MigrateSetup ==
    /\ Len(hist) < MaxOps
    /\ \E p \in Procs :
        /\ txs[p].status = "open" /\ txs[p].op = "setup"
        /\ NextStep(txs[p]) < Len(MIGRATIONS)
        /\ ~LockedVersion(p, NextStep(txs[p]))
        /\ txs' = IF TakenVersion(NextStep(txs[p]))
                  THEN [txs EXCEPT ![p].status = "doomed"]
                  ELSE [txs EXCEPT ![p].n = @ + 1]
        /\ UNCHANGED <<relations, migrations, checkpoints, blobs, writes, hist, ret>>

\* COMMIT and release after the loop: the tables the steps created and the
\* indices they inserted are in the database.
CommitSetup ==
    /\ Len(hist) < MaxOps
    /\ \E p \in Procs :
        /\ txs[p].status = "open" /\ txs[p].op = "setup"
        /\ NextStep(txs[p]) >= Len(MIGRATIONS)
        /\ relations' = relations \cup {MIGRATIONS[v + 1] : v \in Inserted(txs[p])}
        /\ migrations' = migrations
                           \o [i \in 1..txs[p].n |-> FirstStep(txs[p].version) + i - 1]
        /\ LET call == Call("setup", txs[p].args,
                            [ok |-> TRUE, value |-> None,
                             trace |-> SetupTrace(txs[p]) \o <<"COMMIT", "release">>])
           IN hist' = Append(hist, call) /\ ret' = call
        /\ txs' = [txs EXCEPT ![p].status = "committed"]
        /\ UNCHANGED <<checkpoints, blobs, writes>>

\* The catch block after a statement failed: ROLLBACK, rethrow, release.
RollbackSetup ==
    /\ Len(hist) < MaxOps
    /\ \E p \in Procs :
        /\ txs[p].status = "doomed"
        /\ LET call == Call("setup", txs[p].args,
                            [ok |-> FALSE, value |-> None,
                             trace |-> SetupTrace(txs[p])
                                       \o <<"MIGRATION", "ROLLBACK", "release">>])
           IN hist' = Append(hist, call) /\ ret' = call
        /\ txs' = [txs EXCEPT ![p].status = "aborted"]
        /\ UNCHANGED <<relations, migrations, checkpoints, blobs, writes>>

NextSetups ==
    BeginSetup \/ SelectSetup \/ MigrateSetup \/ CommitSetup \/ RollbackSetup

SpecSetups == InitSetups /\ [][NextSetups]_vars

\* The ledger holds the indices 0..k-1, each once, for some k.
GapFree(ledger) ==
    /\ Len(ledger) <= Len(MIGRATIONS)
    /\ \A v \in 0..(Len(ledger) - 1) :
          Cardinality({i \in 1..Len(ledger) : ledger[i] = v}) = 1

AllFinished == \A p \in Procs : txs[p].status \in {"committed", "aborted"}

SomeCommitted == \E p \in Procs : txs[p].status = "committed"

\* C19: with two setup calls running at the same time, the ledger after
\* every step holds a gap-free prefix of the migration indices, each once;
\* its highest version does not decrease; and when both calls have ended
\* and one of them committed, it holds every migration index.
C19_LedgerPrefix ==
    [][ /\ GapFree(migrations')
        /\ MaxOf(migrations') >= MaxOf(migrations)
        /\ (AllFinished' /\ SomeCommitted') => LedgerComplete' ]_vars

\* C19's case: both calls read the version 0 before either ended; the
\* first to insert committed the steps 1 to 3, the other failed on the
\* duplicate key and rolled back, and the ledger is complete.
C19_Witness ==
    /\ Len(hist) = 2
    /\ \A p \in Procs : txs[p].version = 0 /\ txs[p].began = 0
    /\ hist[1].ok /\ ~hist[2].ok
    /\ AllFinished
    /\ migrations = <<0, 1, 2, 3>>

\* ----------------------------------------------------------------- failures

\* Puts whose identity lacks the configurable part or the thread id.
PutNoThread ==
    /\ Len(hist) < MaxOps
    /\ \E config \in {NoConfigurable, Config(None, None, None)} :
        Put(config, Checkpoint(Id1, Map1("x", 1), Map1("x", "v1"), <<>>),
            MetaA, None, NoFault)

\* A put, with and without newVersions, where a query of the call is
\* rejected or the Serializer throws, or neither.
PutFaulty ==
    /\ Len(hist) < MaxOps
    /\ \E id \in {Id1, Id2}, newVersions \in {None, Some(Map1("x", "v1"))},
       fault \in {NoFault} \cup {QueryFault(n) : n \in 1..4}
                 \cup {SerdeFault(site) :
                          site \in {"_dumpCheckpoint", "_dumpBlobs", "_dumpMetadata"}} :
        Put(Config(Some("t1"), None, None),
            Checkpoint(id, Map1("x", 1), Map1("x", "v1"), <<>>),
            MetaA, newVersions, fault)

PutWritesFaulty ==
    /\ Len(hist) < MaxOps
    /\ \E ws \in {<<<<"x", 1>>>>},
       fault \in {NoFault, SerdeFault("_dumpWrites")}
                 \cup {QueryFault(n) : n \in 1..3} :
        PutWrites(Config(Some("t1"), Some(""), Some(Id1)), ws, Task1, fault, "error")

SetupFaulty ==
    /\ Len(hist) < MaxOps
    /\ \E fault \in {NoFault} \cup {QueryFault(n) : n \in 1..3} : Setup(fault)

NextFaults == PutNoThread \/ PutFaulty \/ PutWritesFaulty \/ SetupFaulty

SpecFaults == Init /\ [][NextFaults]_vars

\* The call sent a blob upsert, the checkpoint upsert or COMMIT, and threw.
FailedInWrite(call) ==
    /\ call.op = "put" /\ ~call.ok
    /\ \E i \in 1..Len(call.trace) :
          call.trace[i] \in {"UPSERT_CHECKPOINT_BLOBS_SQL",
                             "UPSERT_CHECKPOINTS_SQL", "COMMIT"}

\* The identities a reader may ask for.
ReadConfigs ==
    {Config(Some("t1"), None, id) : id \in {None, Some(Id1), Some(Id2)}}

\* C12: a put in which a blob upsert, the checkpoint upsert or the commit
\* fails sends ROLLBACK before it rethrows and releases, and leaves the
\* tables as they were: getTuple and list return after it what they
\* returned before it.
C12_PutAllOrNothing ==
    [][ (hist' # hist /\ FailedInWrite(ret')) =>
          /\ RolledBack(ret')
          /\ checkpoints' = checkpoints /\ blobs' = blobs /\ writes' = writes
          /\ \A c \in ReadConfigs :
                /\ GetTuple(Db', c) = GetTuple(Db, c)
                /\ List(Db', c, None, None, None) = List(Db, c, None, None, None) ]_vars

\* C12's case: after a put that returned, a put of another checkpoint sent
\* its blob upsert, failed in the checkpoint upsert, and one checkpoint and
\* one blob are stored.
C12_Witness ==
    /\ Len(hist) = 2
    /\ hist[1].op = "put" /\ hist[1].ok
    /\ FailedInWrite(ret)
    /\ ret.args.fault = QueryFault(3)
    /\ ret.trace = <<"connect", "BEGIN", "UPSERT_CHECKPOINT_BLOBS_SQL",
                     "UPSERT_CHECKPOINTS_SQL", "ROLLBACK", "release">>
    /\ ret.args.checkpoint.id # hist[1].args.checkpoint.id
    /\ Cardinality(checkpoints) = 1

\* C13 as stated: a put whose identity lacks the thread id, the
\* configurable part being missing or present without thread_id, throws
\* before it acquires a connection or sends a statement, and leaves the
\* tables as they were.
C13_NoThreadFailsAtOnce ==
    [][ ( /\ hist' # hist /\ ret'.op = "put"
          /\ (~ret'.args.config.configurable \/ ret'.args.config.thread_id = None) ) =>
          /\ ~ret'.ok
          /\ ret'.trace = <<>>
          /\ checkpoints' = checkpoints /\ blobs' = blobs /\ writes' = writes ]_vars

\* The calls on the pool and the client of a call that acquired a
\* connection: one connect, BEGIN first, COMMIT or ROLLBACK last, then one
\* release.
OneTransaction(trace) ==
    /\ Len(trace) >= 4
    /\ trace[1] = "connect" /\ trace[2] = "BEGIN"
    /\ trace[Len(trace) - 1] \in {"COMMIT", "ROLLBACK"}
    /\ trace[Len(trace)] = "release"
    /\ Cardinality({i \in 1..Len(trace) : trace[i] = "connect"}) = 1
    /\ Cardinality({i \in 1..Len(trace) : trace[i] = "release"}) = 1

\* C18 as stated: every setup, put and putWrites call that acquires a
\* connection, also one in which the Serializer throws or a statement
\* fails, acquires one, sends BEGIN first, ends with COMMIT or ROLLBACK and
\* releases the connection once.
C18_OneTransactionPerCall ==
    (ret.op \in {"setup", "put", "putWrites"} /\ ret.trace # <<>>) =>
        OneTransaction(ret.trace)

====
